---- MODULE Spec2Model ----
(***************************************************************************)
(* Model of the presence / position tracker of src/server.js.              *)
(*                                                                         *)
(* The server is one single-threaded Node.js process: every handler        *)
(* (WebSocket "connection", "message", "close", GET /events and its        *)
(* request "close") runs to completion before the next one starts, so      *)
(* each handler is one atomic action.                                      *)
(*                                                                         *)
(* Program state: users (the registry object, kept as the list of its      *)
(* properties, name and value, in property order), disk (the content of    *)
(* users.json), connectedUsers (the Set), sseClients (the array of SSE     *)
(* responses), proto (what the handlers have written onto                  *)
(* Object.prototype).                                                      *)
(* Environment: the sessions and observers with their transports          *)
(* (unreachable: the observers whose peer is gone); the wall clock is      *)
(* read by new Date() and is an input of the HELLO handler.                *)
(* History variables (feed, lastSnap, pubSeq, lastPub, sent, helloed,      *)
(* firstHelloAt, lastCoords, warned, missed, log) record what the          *)
(* handlers wrote to the outside; the code never reads them.               *)
(*                                                                         *)
(* A JavaScript string is a sequence of characters, because the code's     *)
(* behaviour depends on the spelling of steam ids and coordinates; the     *)
(* command of a message alone is kept as a TLA+ string.                    *)
(***************************************************************************)
EXTENDS Integers, Sequences, FiniteSets, TLC

\* ------------------------------------------------------------- bounds
MaxSessions == 2
MaxObservers == 2
MaxClock == 1
MaxPublishes == 4
\* How many observers may be unreachable at once (SpecFail only).
MaxUnreachable == 1

Sessions == 1..MaxSessions
Observers == 1..MaxObservers
\* The instants new Date() can return.
Times == 0..MaxClock

\* The value undefined: what parts[i] is when the message has fewer parts,
\* and what reading a property yields that an object does not have.  It is
\* kept as a sequence that is not a sequence of characters.
Undefined == <<"undefined">>

Key1 == <<"7", "6", "5", "6", "1", "1", "9", "8", "0", "0", "0", "0", "0", "0", "0", "0", "1">>
Key2 == <<"7", "6", "5", "6", "1", "1", "9", "8", "0", "0", "0", "0", "0", "0", "0", "0", "2">>
Keys == {Key1, Key2}

\* Steam ids that are the names of members of Object.prototype, of fields
\* the HELLO handler writes, an array index, and the spelling of undefined.
KeyConstructor == <<"c", "o", "n", "s", "t", "r", "u", "c", "t", "o", "r">>
KeyToLocaleString == <<"t", "o", "L", "o", "c", "a", "l", "e", "S", "t", "r", "i", "n", "g">>
KeyProto == <<"_", "_", "p", "r", "o", "t", "o", "_", "_">>
KeyUsername == <<"u", "s", "e", "r", "n", "a", "m", "e">>
KeyIndex == <<"7">>
KeyUndefined == <<"u", "n", "d", "e", "f", "i", "n", "e", "d">>
OddKeys ==
    {KeyConstructor, KeyToLocaleString, KeyProto, KeyUsername, KeyIndex,
     KeyUndefined}
AllKeys == Keys \cup OddKeys

\* What a client reports about itself in a HELLO.
Al == [username |-> <<"A", "l">>, region |-> <<"N", "A">>,
       timezone |-> <<"U", "T", "C", "-", "5">>]
Bob == [username |-> <<"B", "o", "b">>, region |-> <<"E", "U">>,
        timezone |-> <<"U", "T", "C", "+", "1">>]
\* HELLO|<id>||EU|UTC+1: an empty user name.
Nameless == [username |-> <<>>, region |-> <<"E", "U">>,
             timezone |-> <<"U", "T", "C", "+", "1">>]

\* Coordinate tokens as they appear between the "|" of a POSITION message.
Tok12345 == <<"1", ".", "2", "3", "4", "5">>
TokM3 == <<"-", "3">>
Tok0 == <<"0">>
TokAbc == <<"a", "b", "c">>
Tok25 == <<"2", ".", "5">>
TokM0004 == <<"-", "0", ".", "0", "0", "4">>
CoordsA == <<Tok12345, TokM3, Tok0>>
CoordsB == <<TokAbc, Tok25, TokM0004>>

\* Messages, given as the parts that msg.toString().split("|") yields.
HelloMsg(k, p) == <<"HELLO", k, p.username, p.region, p.timezone>>
PositionMsg(k, c) == <<"POSITION", k, c[1], c[2], c[3]>>

HelloMsgs == { HelloMsg(Key1, Al), HelloMsg(Key2, Bob) }
PositionMsgs == { PositionMsg(Key1, CoordsA), PositionMsg(Key1, CoordsB) }
OtherMsgs == { <<"Hello from client!">> }

\* parts[i] of the code, whose parts are counted from 0.
PartAt(parts, i) == IF i + 1 <= Len(parts) THEN parts[i + 1] ELSE Undefined

\* String(v): a string is itself, undefined its spelling.  It is what a
\* property name and the argument of parseFloat are converted with.
StringOf(v) == IF v = Undefined THEN KeyUndefined ELSE v

\* !v for a string or undefined.
Falsy(v) == v = Undefined \/ v = <<>>

VARIABLES
    users,          \* registry: the properties [key, value] of the users
                    \* object, in property order
    disk,           \* users.json: [kind, content]
    connectedUsers, \* Set of steam ids
    sseClients,     \* array of SSE responses (observer ids)
    proto,          \* the properties the handlers have put on Object.prototype,
                    \* in the order they were created
    sess,           \* per session: "idle" | "open" | "closed"
    obs,            \* per observer: "idle" | "open" | "closed"
    unreachable,    \* observers whose peer is gone while their response is
                    \* still in sseClients (its "close" was not emitted yet)
    feed,           \* per observer: summary of the events written to its response
    lastSnap,       \* per observer: the data of the last event written to it
    pubSeq,         \* number of broadcastUsers calls so far
    lastPub,        \* data computed by the last broadcastUsers call
    sent,           \* the replies sent by the handler recorded in log
    helloed,        \* per session: the steam ids it sent HELLO with
    firstHelloAt,   \* per key: timestamp of the first HELLO processed, or <<>>
    lastCoords,     \* per key: the coordinate parts of the last POSITION
                    \* applied to its record, or <<>>
    warned,         \* startup logged that users.json could not be parsed
    missed,         \* observers that had closed when some later broadcast ran
    log             \* the steps of the most recent message or close handler,
                    \* in execution order

vars == <<users, disk, connectedUsers, sseClients, proto, sess, obs,
          unreachable, feed, lastSnap, pubSeq, lastPub, sent, helloed,
          firstHelloAt, lastCoords, warned, missed, log>>

\* ------------------------------------------------ numbers and their text
\* A number is what parseFloat returns: NaN, an infinity, or a finite value
\* kept as its decimal digits: digits (most significant first, without
\* leading or trailing zeros, <<>> for zero) times 10^pow.  The decimal is
\* exact; the double that parseFloat yields is the one nearest to it, to even
\* on a tie, and toFixed and String print that double.
Digits == <<"0", "1", "2", "3", "4", "5", "6", "7", "8", "9">>
IsDigit(c) == \E d \in 1..10 : Digits[d] = c
DigitVal(c) == (CHOOSE d \in 1..10 : Digits[d] = c) - 1

\* StrWhiteSpaceChar: tab, vertical tab, form feed, space, no-break space,
\* byte order mark, the line terminators and the other space separators.
\* The characters outside ASCII are named by code point.
WhiteSpace ==
    {"\t", "", "\f", " ", "U+00A0", "U+FEFF", "\n", "\r", "U+1680",
     "U+2000", "U+2001", "U+2002", "U+2003", "U+2004", "U+2005",
     "U+2006", "U+2007", "U+2008", "U+2009", "U+200A",
     "U+2028", "U+2029", "U+202F", "U+205F", "U+3000"}

\* Index of the first character of tok, from i on, that is not white space.
SkipSpace(tok, i) ==
    CHOOSE j \in i..(Len(tok) + 1) :
        /\ j = Len(tok) + 1 \/ tok[j] \notin WhiteSpace
        /\ \A m \in i..(j - 1) : tok[m] \in WhiteSpace

\* Index just past the run of digits of tok that starts at i.
DigitsEnd(tok, i) ==
    CHOOSE j \in i..(Len(tok) + 1) :
        /\ j = Len(tok) + 1 \/ ~IsDigit(tok[j])
        /\ \A m \in i..(j - 1) : IsDigit(tok[m])

\* The digits tok[i..j-1] as numbers.
DigitsOf(tok, i, j) == [n \in 1..(j - i) |-> DigitVal(tok[i + n - 1])]

HasPrefixAt(tok, i, word) ==
    /\ i + Len(word) - 1 <= Len(tok)
    /\ \A j \in 1..Len(word) : tok[i + j - 1] = word[j]

InfinityText == <<"I", "n", "f", "i", "n", "i", "t", "y">>

\* Naturals as digit sequences.
Only(S) == CHOOSE x \in S : TRUE
Least(S) == CHOOSE i \in S : \A j \in S : i <= j
Greatest(S) == CHOOSE i \in S : \A j \in S : i >= j

StripLeft(ds) ==
    LET nz == { i \in 1..Len(ds) : ds[i] # 0 }
    IN  IF nz = {} THEN <<>> ELSE SubSeq(ds, Least(nz), Len(ds))

StripRight(ds) ==
    LET nz == { i \in 1..Len(ds) : ds[i] # 0 }
    IN  IF nz = {} THEN <<>> ELSE SubSeq(ds, 1, Greatest(nz))

Zeros(n) == [i \in 1..n |-> 0]

\* -1, 0, 1 as 0.a is below, equal to, above 0.b
FracCmp(a, b) ==
    LET n == IF Len(a) > Len(b) THEN Len(a) ELSE Len(b)
        x == a \o Zeros(n - Len(a))
        y == b \o Zeros(n - Len(b))
        differ == { i \in 1..n : x[i] # y[i] }
    IN  IF differ = {} THEN 0
        ELSE IF x[Least(differ)] < y[Least(differ)] THEN -1 ELSE 1

NatLess(a, b) ==
    \/ Len(a) < Len(b)
    \/ Len(a) = Len(b) /\ FracCmp(a, b) = -1

\* A digit of 2 * ds takes a carry exactly when the digit after it is 5 or more.
Times2(ds) ==
    (IF ds # <<>> /\ ds[1] >= 5 THEN <<1>> ELSE <<>>)
    \o [i \in 1..Len(ds) |->
           ((2 * ds[i]) % 10) + (IF i < Len(ds) /\ ds[i + 1] >= 5 THEN 1 ELSE 0)]

\* A digit of ds \div 2 takes ten more exactly when the digit before it is odd.
Half(ds) ==
    StripLeft([i \in 1..Len(ds) |->
                  (ds[i] + (IF i > 1 /\ ds[i - 1] % 2 = 1 THEN 10 ELSE 0)) \div 2])

Odd(ds) == ds # <<>> /\ ds[Len(ds)] % 2 = 1

PlusOne(ds) ==
    Only({ IF g = 0 THEN <<1>> \o Zeros(Len(ds))
           ELSE [i \in 1..Len(ds) |->
                    IF i < g THEN ds[i] ELSE IF i = g THEN ds[i] + 1 ELSE 0] :
           g \in {Greatest({0} \cup { i \in 1..Len(ds) : ds[i] # 9 })} })

\* Value of a digit sequence, every value above 999999 read as 1000000.
RECURSIVE ValueOf(_)
ValueOf(ds) ==
    IF ds = <<>> THEN 0
    ELSE 10 * ValueOf(SubSeq(ds, 1, Len(ds) - 1)) + ds[Len(ds)]

SmallValue(ds) ==
    IF Len(StripLeft(ds)) > 6 THEN 1000000 ELSE ValueOf(StripLeft(ds))

NaN == [kind |-> "nan", neg |-> FALSE, digits |-> <<>>, pow |-> 0]
Infinite(neg) == [kind |-> "inf", neg |-> neg, digits |-> <<>>, pow |-> 0]
Finite(neg, ds, p) == [kind |-> "num", neg |-> neg, digits |-> ds, pow |-> p]

\* 2^1024 - 2^970, half-way between the largest double and 2^1024, all its
\* 309 digits: from here on a decimal rounds to Infinity.
OverflowEdge ==
    <<1, 7, 9, 7, 6, 9, 3, 1, 3, 4, 8, 6, 2, 3, 1, 5, 8, 0, 7, 9, 3, 7, 2, 8, 9,
      7, 1, 4, 0, 5, 3, 0, 3, 4, 1, 5, 0, 7, 9, 9, 3, 4, 1, 3, 2, 7, 1, 0, 0, 3,
      7, 8, 2, 6, 9, 3, 6, 1, 7, 3, 7, 7, 8, 9, 8, 0, 4, 4, 4, 9, 6, 8, 2, 9, 2,
      7, 6, 4, 7, 5, 0, 9, 4, 6, 6, 4, 9, 0, 1, 7, 9, 7, 7, 5, 8, 7, 2, 0, 7, 0,
      9, 6, 3, 3, 0, 2, 8, 6, 4, 1, 6, 6, 9, 2, 8, 8, 7, 9, 1, 0, 9, 4, 6, 5, 5,
      5, 5, 4, 7, 8, 5, 1, 9, 4, 0, 4, 0, 2, 6, 3, 0, 6, 5, 7, 4, 8, 8, 6, 7, 1,
      5, 0, 5, 8, 2, 0, 6, 8, 1, 9, 0, 8, 9, 0, 2, 0, 0, 0, 7, 0, 8, 3, 8, 3, 6,
      7, 6, 2, 7, 3, 8, 5, 4, 8, 4, 5, 8, 1, 7, 7, 1, 1, 5, 3, 1, 7, 6, 4, 4, 7,
      5, 7, 3, 0, 2, 7, 0, 0, 6, 9, 8, 5, 5, 5, 7, 1, 3, 6, 6, 9, 5, 9, 6, 2, 2,
      8, 4, 2, 9, 1, 4, 8, 1, 9, 8, 6, 0, 8, 3, 4, 9, 3, 6, 4, 7, 5, 2, 9, 2, 7,
      1, 9, 0, 7, 4, 1, 6, 8, 4, 4, 4, 3, 6, 5, 5, 1, 0, 7, 0, 4, 3, 4, 2, 7, 1,
      1, 5, 5, 9, 6, 9, 9, 5, 0, 8, 0, 9, 3, 0, 4, 2, 8, 8, 0, 1, 7, 7, 9, 0, 4,
      1, 7, 4, 4, 9, 7, 7, 9, 2>>

\* 2^-1075, half of the smallest double, as 0.00...0 (323 zeros) followed by
\* these 752 digits of 5^1075: up to here a decimal rounds to zero.
UnderflowEdge ==
    <<2, 4, 7, 0, 3, 2, 8, 2, 2, 9, 2, 0, 6, 2, 3, 2, 7, 2, 0, 8, 8, 2, 8, 4, 3,
      9, 6, 4, 3, 4, 1, 1, 0, 6, 8, 6, 1, 8, 2, 5, 2, 9, 9, 0, 1, 3, 0, 7, 1, 6,
      2, 3, 8, 2, 2, 1, 2, 7, 9, 2, 8, 4, 1, 2, 5, 0, 3, 3, 7, 7, 5, 3, 6, 3, 5,
      1, 0, 4, 3, 7, 5, 9, 3, 2, 6, 4, 9, 9, 1, 8, 1, 8, 0, 8, 1, 7, 9, 9, 6, 1,
      8, 9, 8, 9, 8, 2, 8, 2, 3, 4, 7, 7, 2, 2, 8, 5, 8, 8, 6, 5, 4, 6, 3, 3, 2,
      8, 3, 5, 5, 1, 7, 7, 9, 6, 9, 8, 9, 8, 1, 9, 9, 3, 8, 7, 3, 9, 8, 0, 0, 5,
      3, 9, 0, 9, 3, 9, 0, 6, 3, 1, 5, 0, 3, 5, 6, 5, 9, 5, 1, 5, 5, 7, 0, 2, 2,
      6, 3, 9, 2, 2, 9, 0, 8, 5, 8, 3, 9, 2, 4, 4, 9, 1, 0, 5, 1, 8, 4, 4, 3, 5,
      9, 3, 1, 8, 0, 2, 8, 4, 9, 9, 3, 6, 5, 3, 6, 1, 5, 2, 5, 0, 0, 3, 1, 9, 3,
      7, 0, 4, 5, 7, 6, 7, 8, 2, 4, 9, 2, 1, 9, 3, 6, 5, 6, 2, 3, 6, 6, 9, 8, 6,
      3, 6, 5, 8, 4, 8, 0, 7, 5, 7, 0, 0, 1, 5, 8, 5, 7, 6, 9, 2, 6, 9, 9, 0, 3,
      7, 0, 6, 3, 1, 1, 9, 2, 8, 2, 7, 9, 5, 5, 8, 5, 5, 1, 3, 3, 2, 9, 2, 7, 8,
      3, 4, 3, 3, 8, 4, 0, 9, 3, 5, 1, 9, 7, 8, 0, 1, 5, 5, 3, 1, 2, 4, 6, 5, 9,
      7, 2, 6, 3, 5, 7, 9, 5, 7, 4, 6, 2, 2, 7, 6, 6, 4, 6, 5, 2, 7, 2, 8, 2, 7,
      2, 2, 0, 0, 5, 6, 3, 7, 4, 0, 0, 6, 4, 8, 5, 4, 9, 9, 9, 7, 7, 0, 9, 6, 5,
      9, 9, 4, 7, 0, 4, 5, 4, 0, 2, 0, 8, 2, 8, 1, 6, 6, 2, 2, 6, 2, 3, 7, 8, 5,
      7, 3, 9, 3, 4, 5, 0, 7, 3, 6, 3, 3, 9, 0, 0, 7, 9, 6, 7, 7, 6, 1, 9, 3, 0,
      5, 7, 7, 5, 0, 6, 7, 4, 0, 1, 7, 6, 3, 2, 4, 6, 7, 3, 6, 0, 0, 9, 6, 8, 9,
      5, 1, 3, 4, 0, 5, 3, 5, 5, 3, 7, 4, 5, 8, 5, 1, 6, 6, 6, 1, 1, 3, 4, 2, 2,
      3, 7, 6, 6, 6, 7, 8, 6, 0, 4, 1, 6, 2, 1, 5, 9, 6, 8, 0, 4, 6, 1, 9, 1, 4,
      4, 6, 7, 2, 9, 1, 8, 4, 0, 3, 0, 0, 5, 3, 0, 0, 5, 7, 5, 3, 0, 8, 4, 9, 0,
      4, 8, 7, 6, 5, 3, 9, 1, 7, 1, 1, 3, 8, 6, 5, 9, 1, 6, 4, 6, 2, 3, 9, 5, 2,
      4, 9, 1, 2, 6, 2, 3, 6, 5, 3, 8, 8, 1, 8, 7, 9, 6, 3, 6, 2, 3, 9, 3, 7, 3,
      2, 8, 0, 4, 2, 3, 8, 9, 1, 0, 1, 8, 6, 7, 2, 3, 4, 8, 4, 9, 7, 6, 6, 8, 2,
      3, 5, 0, 8, 9, 8, 6, 3, 3, 8, 8, 5, 8, 7, 9, 2, 5, 6, 2, 8, 3, 0, 2, 7, 5,
      5, 9, 9, 5, 6, 5, 7, 5, 2, 4, 4, 5, 5, 5, 0, 7, 2, 5, 5, 1, 8, 9, 3, 1, 3,
      6, 9, 0, 8, 3, 6, 2, 5, 4, 7, 7, 9, 1, 8, 6, 9, 4, 8, 6, 6, 7, 9, 9, 4, 9,
      6, 8, 3, 2, 4, 0, 4, 9, 7, 0, 5, 8, 2, 1, 0, 2, 8, 5, 1, 3, 1, 8, 5, 4, 5,
      1, 3, 9, 6, 2, 1, 3, 8, 3, 7, 7, 2, 2, 8, 2, 6, 1, 4, 5, 4, 3, 7, 6, 9, 3,
      4, 1, 2, 5, 3, 2, 0, 9, 8, 5, 9, 1, 3, 2, 7, 6, 6, 7, 2, 3, 6, 3, 2, 8, 1,
      2, 5>>

\* The double nearest to mant * 10^p, as far as printing it needs.
ToDouble(neg, mant, p) ==
    LET lead == StripLeft(mant)
        ds == StripRight(lead)
        pw == p + (Len(lead) - Len(ds))
        e == Len(ds) + pw
    IN  IF ds = <<>> THEN Finite(neg, <<>>, 0)
        ELSE IF e > 309 \/ (e = 309 /\ FracCmp(ds, OverflowEdge) >= 0)
        THEN Infinite(neg)
        ELSE IF e < -323 \/ (e = -323 /\ FracCmp(ds, UnderflowEdge) <= 0)
        THEN Finite(neg, <<>>, 0)
        ELSE Finite(neg, ds, pw)

\* 1 when a sign stands at position a of tok, else 0.
SignLen(tok, a) == IF a <= Len(tok) /\ tok[a] \in {"-", "+"} THEN 1 ELSE 0

\* Index just past the "." and the digits after it when a "." stands at i1.
FractionEnd(tok, i1) ==
    IF i1 <= Len(tok) /\ tok[i1] = "." THEN DigitsEnd(tok, i1 + 1) ELSE i1

\* The digits between the "." at i1 and f1.
FractionOf(tok, i1, f1) == IF f1 > i1 THEN DigitsOf(tok, i1 + 1, f1) ELSE <<>>

\* The value of the exponent part at f1 (e or E, optional sign, digits);
\* 0 when there is none.
ExponentAt(tok, f1) ==
    LET e0 == f1 + 1 + SignLen(tok, f1 + 1)
    IN  IF /\ f1 <= Len(tok)
           /\ tok[f1] \in {"e", "E"}
           /\ DigitsEnd(tok, e0) > e0
        THEN (IF tok[f1 + 1] = "-" THEN -1 ELSE 1)
             * SmallValue(DigitsOf(tok, e0, DigitsEnd(tok, e0)))
        ELSE 0

\* The literal of tok that starts at a, whose integer digits end before i1
\* and whose fraction ends before f1.
Literal(tok, a, i1, f1) ==
    LET neg == a <= Len(tok) /\ tok[a] = "-"
        i0 == a + SignLen(tok, a)
    IN  IF HasPrefixAt(tok, i0, InfinityText) THEN Infinite(neg)
        ELSE IF i1 = i0 /\ FractionOf(tok, i1, f1) = <<>> THEN NaN
        ELSE ToDouble(neg, DigitsOf(tok, i0, i1) \o FractionOf(tok, i1, f1),
                      ExponentAt(tok, f1) - Len(FractionOf(tok, i1, f1)))

\* parseFloat: leading white space is skipped; then an optional sign; then
\* "Infinity", or digits with an optional "." and digits and an optional
\* exponent (e or E, optional sign, digits).  The longest such prefix is read
\* and what follows is ignored; NaN when it has no digit.
ParseFloat(tok) ==
    Only({ Only({ Literal(tok, a, i1, FractionEnd(tok, i1)) :
                  i1 \in {DigitsEnd(tok, a + SignLen(tok, a))} }) :
           a \in {SkipSpace(tok, 1)} })

RECURSIVE IntText(_)
IntText(n) ==
    IF n < 10 THEN <<Digits[n + 1]>>
    ELSE IntText(n \div 10) \o <<Digits[(n % 10) + 1]>>

DigitText(ds) == [i \in 1..Len(ds) |-> Digits[ds[i] + 1]]

\* 2^53: below it every integer is a double.
TwoTo53 == <<9, 0, 0, 7, 1, 9, 9, 2, 5, 4, 7, 4, 0, 9, 9, 2>>

\* ds * 2^t and ds \div 2^t.
RECURSIVE Doubled(_, _)
Doubled(ds, t) ==
    IF t <= 0 \/ ds = <<>> THEN ds
    ELSE IF t = 1 THEN Times2(ds)
    ELSE Doubled(Doubled(ds, t \div 2), t - (t \div 2))

RECURSIVE Halved(_, _)
Halved(ds, t) ==
    IF t <= 0 \/ ds = <<>> THEN ds
    ELSE IF t = 1 THEN Half(ds)
    ELSE Halved(Halved(ds, t \div 2), t - (t \div 2))

\* 2^52: from here up to 2^53 the doubles are the integers.
TwoTo52 == <<4, 5, 0, 3, 5, 9, 9, 6, 2, 7, 3, 7, 0, 4, 9, 6>>

\* The double nearest to an integer v, or to v and a fraction when sticky
\* starts TRUE, as m * 2^t: v is halved t times down to 53 bits (round is the
\* last bit dropped, sticky whether anything below it was set) and rounded to
\* nearest, to even on a tie.
RECURSIVE NearestParts(_, _, _, _)
NearestParts(v, round, sticky, t) ==
    IF NatLess(v, TwoTo53)
    THEN LET m == IF round /\ (sticky \/ Odd(v)) THEN PlusOne(v) ELSE v
         IN  IF m = TwoTo53 THEN [m |-> TwoTo52, t |-> t + 1]
             ELSE [m |-> m, t |-> t]
    ELSE NearestParts(Half(v), Odd(v), sticky \/ round, t + 1)

\* v has more than 3.3219 * (Len(v) - 1) bits: that many less 53 are dropped
\* at once, the few that remain one by one.
Nearest(v, sticky) ==
    LET t == (((Len(v) - 1) * 33219) \div 10000) - 52
    IN  IF t <= 0 THEN NearestParts(v, FALSE, sticky, 0)
        ELSE Only({ NearestParts(Half(u), Odd(u),
                                 sticky \/ Doubled(u, t - 1) # v, t) :
                    u \in {Halved(v, t - 1)} })

NearestInteger(v, sticky) ==
    LET p == Nearest(v, sticky) IN Doubled(p.m, p.t)

\* ds = Quot * 10^k + Rest, Rest given with its k digits.
Quot(ds, k) == IF Len(ds) <= k THEN <<>> ELSE SubSeq(ds, 1, Len(ds) - k)
Rest(ds, k) ==
    IF Len(ds) <= k THEN Zeros(k - Len(ds)) \o ds
    ELSE SubSeq(ds, Len(ds) - k + 1, Len(ds))

\* The least s with ds * 2^s / 10^k >= 2^52, and ds * 2^s.
RECURSIVE ScaleUp(_, _, _)
ScaleUp(ds, k, s) ==
    IF ~NatLess(Quot(ds, k), TwoTo52) THEN [x |-> ds, s |-> s]
    ELSE ScaleUp(Times2(ds), k, s + 1)

\* The hundredths, rounded to nearest with a tie going up, of the double
\* nearest to ds / 10^k (k > 0), a value of at least 1/1000.  Below 2^53 the
\* double is m / 2^s with m the integer nearest to ds * 2^s / 10^k (to even
\* on a tie); from 2^53 on it is an integer.
HundredthsOfDouble(ds, k) ==
    IF ~NatLess(Quot(ds, k), TwoTo53)
    THEN NearestInteger(Quot(ds, k), StripLeft(Rest(ds, k)) # <<>>)
         \o <<0, 0>>
    ELSE LET up == ScaleUp(ds, k, 0)
             q == Quot(up.x, k)
             c == FracCmp(Rest(up.x, k), <<5>>)
             m == IF c > 0 \/ (c = 0 /\ Odd(q)) THEN PlusOne(q) ELSE q
             y == m \o <<0, 0>>
         IN  IF up.s = 0 THEN y
             ELSE LET z == Halved(y, up.s - 1)
                  IN  IF Odd(z) THEN PlusOne(Half(z)) ELSE Half(z)

\* The hundredths of a positive finite value below 10^21, as toFixed(2)
\* rounds them: those of the double nearest to ds * 10^pw.  For a value
\* below 10^13 with at most 15 significant digits that is not half-way
\* between two hundredths, the double lies on the same side of every
\* half-way point as the decimal, and the decimal is rounded directly.
Hundredths(ds, pw) ==
    LET cut == Len(ds) + pw + 2
    IN  IF pw >= 0
        THEN NearestInteger(ds \o Zeros(pw), FALSE) \o <<0, 0>>
        ELSE IF cut < 0 THEN <<>>
        ELSE IF Len(ds) <= 15 /\ cut <= 15 /\ pw >= -2 THEN ds \o Zeros(pw + 2)
        ELSE IF /\ Len(ds) <= 15 /\ cut <= 15 /\ pw < -2
                /\ ~(ds[cut + 1] = 5 /\ cut + 1 = Len(ds))
        THEN IF ds[cut + 1] >= 5 THEN PlusOne(SubSeq(ds, 1, cut))
             ELSE SubSeq(ds, 1, cut)
        ELSE HundredthsOfDouble(ds, 0 - pw)

\* d less its first k digits followed by zeros, and that plus 10^(Len(d) - k)
\* less d: how far the two decimals of k digits around d are from it.
DownGap(d, k) == StripLeft(SubSeq(d, k + 1, Len(d)))
UpGap(d, k) == StripLeft(PlusOne([i \in 1..(Len(d) - k) |-> 9 - d[k + i]]))

\* A decimal reads back as the double d when it is nearer than half a step of
\* the doubles around d, or at half a step when d's significand is even.
Within(gap, half, even) == NatLess(gap, half) \/ (even /\ gap = half)
DownFits(d, k, below, even) == Within(DownGap(d, k), below, even)
UpFits(d, k, above, even) ==
    DownGap(d, k) # <<>> /\ Within(UpGap(d, k), above, even)

\* The first k digits of d, rounded to the nearer of the two decimals that
\* read back as d, to the even one of two equally near.
Shortest(d, k, above, below, even) ==
    LET kept == SubSeq(d, 1, k)
    IN  IF /\ UpFits(d, k, above, even)
           /\ \/ ~DownFits(d, k, below, even)
              \/ NatLess(UpGap(d, k), DownGap(d, k))
              \/ UpGap(d, k) = DownGap(d, k) /\ Odd(kept)
        THEN PlusOne(kept) ELSE kept

ExponentialText(sig, n) ==
    <<Digits[sig[1] + 1]>>
    \o (IF Len(sig) > 1 THEN <<".">> \o DigitText(Tail(sig)) ELSE <<>>)
    \o <<"e", "+">> \o IntText(n)

ExponentialOf(d, k, above, below, even) ==
    Only({ ExponentialText(StripRight(shown), Len(d) - 1 + (Len(shown) - k)) :
           shown \in {Shortest(d, k, above, below, even)} })

ExponentialWithin(d, above, below, even) ==
    Only({ ExponentialOf(d, k, above, below, even) :
           k \in {Least({ n \in 1..(IF Len(d) < 17 THEN Len(d) ELSE 17) :
                            \/ DownFits(d, n, below, even)
                            \/ UpFits(d, n, above, even) })} })

\* String(x) of a double d = m * 2^t of at least 10^21, d given by its digits:
\* the fewest significant digits that still read back as d (17 always do),
\* the nearest to d among those, written d.ddde+n.  The doubles above d are
\* 2^t apart; those below a power of two half as much.
Exponential(d, m, t) ==
    Only({ ExponentialWithin(d, above, below, ~Odd(m)) :
           above \in {Doubled(<<1>>, t - 1)},
           below \in {Doubled(<<1>>, IF m = TwoTo52 THEN t - 2 ELSE t - 1)} })

\* What is printed of the magnitude of a double p.m * 2^p.t that is an
\* integer: String(x) from 10^21 on, the integer and ".00" below.
IntegerText(p) ==
    Only({ IF Len(d) >= 22 THEN Exponential(d, p.m, p.t)
           ELSE DigitText(d) \o <<".", "0", "0">> :
           d \in {Doubled(p.m, p.t)} })

\* Number.prototype.toFixed(2): "NaN", "Infinity", "-Infinity"; String(x) for
\* 10^21 and above; otherwise "-" when x < 0 (not for -0), the integer part,
\* "." and two digits.
ToFixed2(x) ==
    LET sign == IF x.neg THEN <<"-">> ELSE <<>>
    IN  IF x.kind = "nan" THEN <<"N", "a", "N">>
        ELSE IF x.kind = "inf" THEN sign \o InfinityText
        ELSE IF x.digits = <<>> THEN <<"0", ".", "0", "0">>
        ELSE IF Len(x.digits) + x.pow >= 21
        THEN sign \o Only({ IntegerText(p) :
                            p \in {IF x.pow >= 0
                                   THEN Nearest(x.digits \o Zeros(x.pow), FALSE)
                                   ELSE Nearest(Quot(x.digits, 0 - x.pow), TRUE)} })
        ELSE sign \o Only({ DigitText(SubSeq(n, 1, Len(n) - 2)) \o <<".">>
                            \o DigitText(SubSeq(n, Len(n) - 1, Len(n))) :
                            n \in {Only({ Zeros(3 - Len(h)) \o h :
                                          h \in {Hundredths(x.digits, x.pow)} })} })

\* `${x.toFixed(2)}, ${y.toFixed(2)}, ${z.toFixed(2)}`
FormatPosition(x, y, z) ==
    ToFixed2(x) \o <<",", " ">> \o ToFixed2(y) \o <<",", " ">> \o ToFixed2(z)

NA == <<"N", "/", "A">>

\* ------------------------------------------------------------ registry
\* users is a plain object.  A lookup users[k] finds k's record when the
\* object has one; otherwise what Object.prototype holds under k: one of
\* its eleven functions, itself under "__proto__", or a property that an
\* earlier handler wrote onto it; otherwise undefined.
InheritedFunctions ==
    { <<"c", "o", "n", "s", "t", "r", "u", "c", "t", "o", "r">>,
      <<"t", "o", "S", "t", "r", "i", "n", "g">>,
      <<"v", "a", "l", "u", "e", "O", "f">>,
      <<"h", "a", "s", "O", "w", "n", "P", "r", "o", "p", "e", "r", "t", "y">>,
      <<"i", "s", "P", "r", "o", "t", "o", "t", "y", "p", "e", "O", "f">>,
      <<"p", "r", "o", "p", "e", "r", "t", "y", "I", "s", "E", "n", "u", "m", "e", "r", "a", "b", "l", "e">>,
      <<"t", "o", "L", "o", "c", "a", "l", "e", "S", "t", "r", "i", "n", "g">>,
      <<"_", "_", "d", "e", "f", "i", "n", "e", "G", "e", "t", "t", "e", "r", "_", "_">>,
      <<"_", "_", "d", "e", "f", "i", "n", "e", "S", "e", "t", "t", "e", "r", "_", "_">>,
      <<"_", "_", "l", "o", "o", "k", "u", "p", "G", "e", "t", "t", "e", "r", "_", "_">>,
      <<"_", "_", "l", "o", "o", "k", "u", "p", "S", "e", "t", "t", "e", "r", "_", "_">> }
InheritedKeys == InheritedFunctions \cup {KeyProto}

\* The fields of a record, spelled as property names.
FieldName ==
    [steamId |-> <<"s", "t", "e", "a", "m", "I", "d">>,
     username |-> <<"u", "s", "e", "r", "n", "a", "m", "e">>,
     region |-> <<"r", "e", "g", "i", "o", "n">>,
     timezone |-> <<"t", "i", "m", "e", "z", "o", "n", "e">>,
     firstConnected |-> <<"f", "i", "r", "s", "t", "C", "o", "n", "n", "e", "c", "t", "e", "d">>,
     lastConnected |-> <<"l", "a", "s", "t", "C", "o", "n", "n", "e", "c", "t", "e", "d">>,
     lastPosition |-> <<"l", "a", "s", "t", "P", "o", "s", "i", "t", "i", "o", "n">>]

\* One property of users: the name k and the record u it holds.
Entry(k, u) == [key |-> k, value |-> u]

HasUser(us, k) == \E i \in 1..Len(us) : us[i].key = k
IndexOf(us, k) == CHOOSE i \in 1..Len(us) : us[i].key = k
UserOf(us, k) == us[IndexOf(us, k)].value
KeysOf(us) == { us[i].key : i \in 1..Len(us) }

\* u.f = v: the field is changed when the record has it and added when not.
Assign(u, f, v) == [g \in (DOMAIN u) \cup {f} |-> IF g = f THEN v ELSE u[g]]

\* Object.prototype's written properties: a list of [name, value].
HasField(pr, n) == \E i \in 1..Len(pr) : pr[i].name = n
FieldOf(pr, n) == pr[CHOOSE i \in 1..Len(pr) : pr[i].name = n]
SetField(pr, n, v) ==
    IF HasField(pr, n)
    THEN [i \in 1..Len(pr) |-> IF pr[i].name = n THEN [pr[i] EXCEPT !.value = v]
                               ELSE pr[i]]
    ELSE Append(pr, [name |-> n, value |-> v])

\* What users[k] evaluates to, k a property name.
Lookup(us, pr, k) ==
    IF HasUser(us, k) THEN "record"
    ELSE IF k = KeyProto THEN "prototype"
    ELSE IF k \in InheritedFunctions THEN "function"
    ELSE IF HasField(pr, k) /\ FieldOf(pr, k).value # Undefined
    THEN (IF FieldOf(pr, k).value = <<>> THEN "empty" ELSE "primitive")
    ELSE "undefined"

\* users[k] is truthy.
Known(us, pr, k) == Lookup(us, pr, k) \in {"record", "prototype", "function", "primitive"}

\* new Date().toISOString() of an instant t, in milliseconds since the
\* epoch, within the first day.
TwoDigits(n) == <<Digits[(n \div 10) + 1], Digits[(n % 10) + 1]>>
ThreeDigits(n) == <<Digits[(n \div 100) + 1]>> \o TwoDigits(n % 100)
ToISOString(t) ==
    <<"1", "9", "7", "0", "-", "0", "1", "-", "0", "1", "T">>
    \o TwoDigits(t \div 3600000) \o <<":">>
    \o TwoDigits((t \div 60000) % 60) \o <<":">>
    \o TwoDigits((t \div 1000) % 60) \o <<".">>
    \o ThreeDigits(t % 1000) \o <<"Z">>

\* { steamId, username, region, timezone, firstConnected: now,
\*   lastConnected: now, lastPosition: "N/A" }
NewUser(steamId, username, region, timezone, now) ==
    [steamId |-> steamId, username |-> username, region |-> region,
     timezone |-> timezone, firstConnected |-> now, lastConnected |-> now,
     lastPosition |-> NA]

\* Faulty variant: a returning user's position is reset to the sentinel.
ReturningUserResetsPosition(u, username, region, timezone, now) ==
    Assign(Assign(Assign(Assign(Assign(u,
        "username", username), "region", region), "timezone", timezone),
        "lastConnected", now), "lastPosition", NA)

\* The four assignments of lines 151-154 on the record u.
ReturningUser(u, username, region, timezone, now) ==
    Assign(Assign(Assign(Assign(u,
        "username", username), "region", region), "timezone", timezone),
        "lastConnected", now)

\* A property name is an array index when it is the canonical spelling of
\* an integer from 0 to 2^32 - 2.
MaxArrayIndex == <<4, 2, 9, 4, 9, 6, 7, 2, 9, 4>>
IsArrayIndex(k) ==
    /\ k # <<>>
    /\ \A i \in 1..Len(k) : IsDigit(k[i])
    /\ Len(k) = 1 \/ k[1] # "0"
    /\ \/ Len(k) < Len(MaxArrayIndex)
       \/ /\ Len(k) = Len(MaxArrayIndex)
          /\ ~NatLess(MaxArrayIndex, DigitsOf(k, 1, Len(k) + 1))
IndexLess(a, b) == NatLess(DigitsOf(a, 1, Len(a) + 1), DigitsOf(b, 1, Len(b) + 1))

\* users[k] = u for a new k.  Object.values and JSON.stringify enumerate
\* the array indices first, in ascending numeric order, then the other
\* names in the order they were created.
AddUser(us, k, u) ==
    IF IsArrayIndex(k)
    THEN LET n == Cardinality({ i \in 1..Len(us) :
                                  /\ IsArrayIndex(us[i].key)
                                  /\ IndexLess(us[i].key, k) })
         IN  SubSeq(us, 1, n) \o <<Entry(k, u)>> \o SubSeq(us, n + 1, Len(us))
    ELSE Append(us, Entry(k, u))

\* The registry after lines 147-156; the property named is String(steamId).
\* The else branch assigns to the fields of users[steamId]: of the record;
\* of Object.prototype (see Polluted); of an inherited function, which
\* nothing reads back; of a string, where an assignment does nothing.
Upsert(us, pr, steamId, username, region, timezone, now) ==
    IF ~Known(us, pr, StringOf(steamId))
    THEN AddUser(us, StringOf(steamId),
                 NewUser(steamId, username, region, timezone, now))
    ELSE IF HasUser(us, StringOf(steamId))
    THEN [us EXCEPT ![IndexOf(us, StringOf(steamId))].value =
              ReturningUser(@, username, region, timezone, now)]
    ELSE us

\* Object.prototype after lines 147-156: users["__proto__"] is
\* Object.prototype itself, and the else branch writes the four fields on it.
Polluted(us, pr, steamId, username, region, timezone, now) ==
    IF Lookup(us, pr, StringOf(steamId)) = "prototype"
    THEN SetField(SetField(SetField(SetField(pr,
             FieldName.username, username),
             FieldName.region, region),
             FieldName.timezone, timezone),
             FieldName.lastConnected, now)
    ELSE pr

\* Faulty variant: only the first position reported for a record is kept.
UpdatePositionKeepsFirst(us, steamId, x, y, z) ==
    IF /\ HasUser(us, StringOf(steamId))
       /\ "lastPosition" \in DOMAIN UserOf(us, StringOf(steamId))
       /\ UserOf(us, StringOf(steamId)).lastPosition # NA
    THEN us
    ELSE IF HasUser(us, StringOf(steamId))
    THEN [us EXCEPT ![IndexOf(us, StringOf(steamId))].value =
              Assign(@, "lastPosition", FormatPosition(x, y, z))]
    ELSE us

\* The registry after line 171; without a record of steamId the assignment
\* lands elsewhere (see PollutedPosition) or nowhere.
UpdatePosition(us, steamId, x, y, z) ==
    IF HasUser(us, StringOf(steamId))
    THEN [us EXCEPT ![IndexOf(us, StringOf(steamId))].value =
              Assign(@, "lastPosition", FormatPosition(x, y, z))]
    ELSE us

\* Object.prototype after line 171.
PollutedPosition(us, pr, steamId, x, y, z) ==
    IF Lookup(us, pr, StringOf(steamId)) = "prototype"
    THEN SetField(pr, FieldName.lastPosition, FormatPosition(x, y, z))
    ELSE pr

\* JSON.stringify leaves out the properties whose value is undefined.  The
\* model keeps, for a JSON text, the value that the text encodes.
Json(u) == [f \in { g \in DOMAIN u : u[g] # Undefined } |-> u[f]]
JsonOfFields(pr) == SelectSeq(pr, LAMBDA f : f.value # Undefined)
JsonOfUsers(us) == [i \in 1..Len(us) |-> Entry(us[i].key, Json(us[i].value))]

\* fs.writeFileSync(USERS_FILE, JSON.stringify(users, null, 2))
SaveUsers(us) == [kind |-> "json", content |-> JsonOfUsers(us)]

\* The registry of an earlier run of the server that handled, at instant 0,
\* a HELLO with a steam id and no other part.
EarlierUsers ==
    Upsert(<<>>, <<>>, Key1, Undefined, Undefined, Undefined, ToISOString(0))

\* No file: users stays {}.  A file that parses: its value.  A file that
\* does not parse: the catch branch sets users = {}.
LoadUsers(d) == IF d.kind = "json" THEN d.content ELSE <<>>

InitialStores ==
    { [kind |-> "missing", content |-> <<>>],
      [kind |-> "corrupt", content |-> <<>>],
      SaveUsers(EarlierUsers) }

\* ------------------------------------------------------------ presence
MarkConnected(cu, steamId) == cu \cup {steamId}

\* Faulty variant: the close handler leaves the set as it is.
ClearNothing(cu) == cu

\* connectedUsers.forEach(steamId => connectedUsers.delete(steamId))
ClearOnClose(cu) == cu \ { k \in cu : TRUE }

\* ------------------------------------------------------------ snapshot
\* new Date(iso).toLocaleString(): the rendering, in the locale of the
\* host, of the instant that the timestamp iso names.
LocaleString(iso) == [locale |-> iso]
NotAvailable == [text |-> NA]
Unknown == <<"(", "u", "n", "k", "n", "o", "w", "n", ")">>

\* u.f: the record's own field, else what Object.prototype holds under f,
\* else undefined.
Read(u, pr, f) ==
    IF f \in DOMAIN u THEN u[f]
    ELSE IF HasField(pr, FieldName[f]) THEN FieldOf(pr, FieldName[f]).value
    ELSE Undefined

\* a || b
OrElse(v, dflt) == IF Falsy(v) THEN dflt ELSE v

\* One entry of formatUsers().
FormatUser(u, cu, pr) ==
    [username |-> OrElse(Read(u, pr, "username"), Unknown),
     steamId |-> OrElse(Read(u, pr, "steamId"), NA),
     joined |-> IF Falsy(Read(u, pr, "firstConnected")) THEN NotAvailable
                ELSE LocaleString(Read(u, pr, "firstConnected")),
     connected |-> Read(u, pr, "steamId") \in cu,
     lastPosition |-> OrElse(Read(u, pr, "lastPosition"), NA)]

\* Object.values(users).map(...)
FormatUsers(us, cu, pr) == [i \in 1..Len(us) |-> FormatUser(us[i].value, cu, pr)]

\* ----------------------------------------------------------- broadcast
\* Faulty variant: the iteration starts at the second response.
WrittenSkipsFirst(cl) == { cl[i] : i \in 2..Len(cl) }

\* Faulty variant: the iteration ends at the first response whose peer is
\* gone, as it would if that write threw.
WrittenUntilUnreachable(cl) ==
    { cl[i] : i \in { j \in 1..Len(cl) : \A h \in 1..j : cl[h] \notin unreachable } }

\* sseClients.forEach(res => res.write(...)): the responses written. Every
\* response of the array is written, reachable or not: res.write tells a
\* failure by its return value and does not throw.
Written(cl) == { cl[i] : i \in 1..Len(cl) }

NoEvent == [kind |-> "none", seq |-> 0]
InitialEvent(n) == [kind |-> "initial", seq |-> n]
PublishEvent(n) == [kind |-> "publish", seq |-> n]

NoFeed == [first |-> "none", last |-> NoEvent, copies |-> 0]

\* One res.write on the response of observer o: first is the kind of the
\* first event it ever got, last the latest event, copies how many times in
\* a row that latest event was written to it.
WriteTo(f, o, ev) ==
    [f EXCEPT ![o] = [first |-> IF @.first = "none" THEN ev.kind ELSE @.first,
                      last |-> ev,
                      copies |-> IF @.last = ev THEN @.copies + 1 ELSE 1]]

\* One res.write of the same event on each response of tos.
WriteAll(f, tos, ev) ==
    [o \in Observers |-> IF o \in tos THEN WriteTo(f, o, ev)[o] ELSE f[o]]

\* Faulty variant: the data of the previous broadcast is sent again.
BroadcastCached(us, cu, pr) ==
    LET tos == Written(sseClients)
    IN  /\ pubSeq' = pubSeq + 1
        /\ lastPub' = [seq |-> pubSeq + 1,
                       data |-> IF pubSeq = 0 THEN FormatUsers(us, cu, pr)
                                ELSE lastPub.data]
        /\ feed' = WriteAll(feed, tos, PublishEvent(pubSeq + 1))
        /\ lastSnap' = [o \in Observers |->
                           IF o \in tos THEN lastPub'.data ELSE lastSnap[o]]
        /\ missed' = { o \in Observers : obs[o] = "closed" }

\* const data = JSON.stringify(formatUsers()), computed once and written to
\* the responses in array order.
BroadcastUsers(us, cu, pr) ==
    LET tos == Written(sseClients)
    IN  /\ pubSeq' = pubSeq + 1
        /\ lastPub' = [seq |-> pubSeq + 1, data |-> FormatUsers(us, cu, pr)]
        /\ feed' = WriteAll(feed, tos, PublishEvent(pubSeq + 1))
        /\ lastSnap' = [o \in Observers |->
                           IF o \in tos THEN lastPub'.data ELSE lastSnap[o]]
        /\ missed' = { o \in Observers : obs[o] = "closed" }

NoBroadcast == UNCHANGED <<pubSeq, lastPub, feed, lastSnap, missed>>

\* ------------------------------------------------------------- handlers
Init ==
    /\ disk \in InitialStores
    /\ users = LoadUsers(disk)
    /\ connectedUsers = {}
    /\ sseClients = <<>>
    /\ proto = <<>>
    /\ sess = [s \in Sessions |-> "idle"]
    /\ obs = [o \in Observers |-> "idle"]
    /\ unreachable = {}
    /\ feed = [o \in Observers |-> NoFeed]
    /\ lastSnap = [o \in Observers |-> <<>>]
    /\ pubSeq = 0
    /\ lastPub = [seq |-> 0, data |-> <<>>]
    /\ sent = <<>>
    /\ helloed = [s \in Sessions |-> {}]
    /\ firstHelloAt = [k \in AllKeys |->
                          IF HasUser(users, k)
                          THEN UserOf(users, k).firstConnected ELSE <<>>]
    /\ lastCoords = [k \in AllKeys |-> <<>>]
    /\ warned = (disk.kind = "corrupt")
    /\ missed = {}
    /\ log = <<>>

\* wss.on("connection"); connections are numbered in order of arrival.
Connect(s) ==
    /\ sess[s] = "idle"
    /\ \A t \in Sessions : t < s => sess[t] # "idle"
    /\ sess' = [sess EXCEPT ![s] = "open"]
    /\ UNCHANGED <<users, disk, connectedUsers, sseClients, obs, proto,
                   unreachable, sent, helloed, firstHelloAt, lastCoords, warned, log>>
    /\ NoBroadcast

\* ws.send(`WELCOME|${JSON.stringify(users[steamId])}`)
Welcome(s, u) == [to |-> s, payload |-> u]

\* JSON.stringify(users[k]): of a record, its JSON text (kept as the value
\* it encodes); of Object.prototype, the JSON text of the properties written
\* on it; of a string, that string quoted; of a function or of undefined,
\* undefined, which the template renders as the text "undefined".
NoJson == [undefined |-> TRUE]
Stringify(us, pr, k) ==
    IF Lookup(us, pr, k) = "record" THEN Json(UserOf(us, k))
    ELSE IF Lookup(us, pr, k) = "prototype" THEN [object |-> JsonOfFields(pr)]
    ELSE IF Lookup(us, pr, k) \in {"primitive", "empty"}
    THEN [string |-> FieldOf(pr, k).value]
    ELSE NoJson

HelloSteps == <<"upsert", "markConnected", "save", "publish", "ack">>

\* command === "HELLO"; date is what new Date() returns.
Hello(s, parts, date) ==
    LET steamId == PartAt(parts, 1)
        username == PartAt(parts, 2)
        region == PartAt(parts, 3)
        timezone == PartAt(parts, 4)
        now == ToISOString(date)
    IN  /\ pubSeq < MaxPublishes
        /\ log' = HelloSteps
        /\ helloed' = [helloed EXCEPT ![s] = @ \cup {steamId}]
        /\ users' = Upsert(users, proto, steamId, username, region, timezone, now)
        /\ proto' = Polluted(users, proto, steamId, username, region, timezone, now)
        /\ connectedUsers' = MarkConnected(connectedUsers, steamId)
        /\ disk' = SaveUsers(users')
        /\ BroadcastUsers(users', connectedUsers', proto')
        /\ sent' = <<Welcome(s, Stringify(users', proto', StringOf(steamId)))>>
        /\ firstHelloAt' = [k \in AllKeys |->
                               IF k = StringOf(steamId) /\ firstHelloAt[k] = <<>>
                               THEN now ELSE firstHelloAt[k]]
        /\ UNCHANGED <<sseClients, sess, obs, unreachable, lastCoords, warned>>

PositionSteps == <<"updatePosition", "save", "publish">>

\* Faulty variant: the update goes to the record the sending session
\* identified as, not to the one the message names.
PositionOwnRecord(s, parts) ==
    LET steamId == IF helloed[s] = {} THEN PartAt(parts, 1)
                   ELSE CHOOSE k \in helloed[s] : TRUE
        x == ParseFloat(StringOf(PartAt(parts, 2)))
        y == ParseFloat(StringOf(PartAt(parts, 3)))
        z == ParseFloat(StringOf(PartAt(parts, 4)))
    IN  IF Known(users, proto, StringOf(steamId))
        THEN /\ pubSeq < MaxPublishes
             /\ users' = UpdatePosition(users, steamId, x, y, z)
             /\ proto' = PollutedPosition(users, proto, steamId, x, y, z)
             /\ disk' = SaveUsers(users')
             /\ BroadcastUsers(users', connectedUsers, proto')
             /\ sent' = <<>>
             /\ log' = PositionSteps
             /\ lastCoords' = [k \in AllKeys |->
                                  IF k = StringOf(steamId) /\ HasUser(users, k)
                                  THEN <<PartAt(parts, 2), PartAt(parts, 3),
                                         PartAt(parts, 4)>>
                                  ELSE lastCoords[k]]
             /\ UNCHANGED <<connectedUsers, sseClients, sess, obs,
                            unreachable, helloed, firstHelloAt, warned>>
        ELSE /\ sent' = <<>>
             /\ log' = <<"ignorePosition">>
             /\ UNCHANGED <<users, disk, connectedUsers, sseClients, proto, sess,
                            obs, unreachable, helloed, firstHelloAt, lastCoords,
                            warned>>
             /\ NoBroadcast

\* command === "POSITION"
Position(s, parts) ==
    LET steamId == PartAt(parts, 1)
        x == ParseFloat(StringOf(PartAt(parts, 2)))
        y == ParseFloat(StringOf(PartAt(parts, 3)))
        z == ParseFloat(StringOf(PartAt(parts, 4)))
    IN  IF Known(users, proto, StringOf(steamId))
        THEN /\ pubSeq < MaxPublishes
             /\ log' = PositionSteps
             /\ users' = UpdatePosition(users, steamId, x, y, z)
             /\ proto' = PollutedPosition(users, proto, steamId, x, y, z)
             /\ disk' = SaveUsers(users')
             /\ BroadcastUsers(users', connectedUsers, proto')
             /\ sent' = <<>>
             /\ lastCoords' = [k \in AllKeys |->
                                  IF k = StringOf(steamId) /\ HasUser(users, k)
                                  THEN <<PartAt(parts, 2), PartAt(parts, 3),
                                         PartAt(parts, 4)>>
                                  ELSE lastCoords[k]]
             /\ UNCHANGED <<connectedUsers, sseClients, sess, obs,
                            unreachable, helloed, firstHelloAt, warned>>
        ELSE /\ sent' = <<>>
             /\ log' = <<"ignorePosition">>
             /\ UNCHANGED <<users, disk, connectedUsers, sseClients, proto, sess,
                            obs, unreachable, helloed, firstHelloAt, lastCoords,
                            warned>>
             /\ NoBroadcast

\* Faulty variant: an unknown command is answered and published.
UnknownCommandAnswers(s, parts) ==
    /\ pubSeq < MaxPublishes
    /\ sent' = <<Welcome(s, NoJson)>>
    /\ log' = <<"logUnknown">>
    /\ BroadcastUsers(users, connectedUsers, proto)
    /\ UNCHANGED <<users, disk, connectedUsers, sseClients, sess, obs, proto,
                   unreachable, helloed, firstHelloAt, lastCoords, warned>>

\* neither HELLO nor POSITION: console.log only
UnknownCommand(s, parts) ==
    /\ sent' = <<>>
    /\ log' = <<"logUnknown">>
    /\ UNCHANGED <<users, disk, connectedUsers, sseClients, sess, obs, proto,
                   unreachable, helloed, firstHelloAt, lastCoords, warned>>
    /\ NoBroadcast

\* ws.on("message"): dispatch on parts[0]
OnMessage(s, parts, date) ==
    /\ sess[s] = "open"
    /\ IF PartAt(parts, 0) = "HELLO" THEN Hello(s, parts, date)
       ELSE IF PartAt(parts, 0) = "POSITION" THEN Position(s, parts)
       ELSE UnknownCommand(s, parts)

CloseSteps == <<"clearPresence", "publish">>

\* ws.on("close")
OnClose(s) ==
    /\ sess[s] = "open"
    /\ pubSeq < MaxPublishes
    /\ sess' = [sess EXCEPT ![s] = "closed"]
    /\ connectedUsers' = ClearOnClose(connectedUsers)
    /\ BroadcastUsers(users, connectedUsers', proto)
    /\ sent' = <<>>
    /\ log' = CloseSteps
    /\ UNCHANGED <<users, disk, sseClients, obs, proto, unreachable, helloed,
                   firstHelloAt, lastCoords, warned>>

\* sseClients.push(res)
AddFeed(cl, o) == Append(cl, o)

\* Faulty variant: the response is registered and nothing is written to it.
SubscribeSilently(o) ==
    /\ obs[o] = "idle"
    /\ \A q \in Observers : q < o => obs[q] # "idle"
    /\ obs' = [obs EXCEPT ![o] = "open"]
    /\ sseClients' = AddFeed(sseClients, o)
    /\ UNCHANGED <<users, disk, connectedUsers, sess, proto, unreachable,
                   feed, lastSnap, pubSeq, lastPub, sent, helloed, firstHelloAt,
                   lastCoords, warned, missed, log>>

\* app.get("/events"); requests are numbered in order of arrival.
Subscribe(o) ==
    /\ obs[o] = "idle"
    /\ \A q \in Observers : q < o => obs[q] # "idle"
    /\ obs' = [obs EXCEPT ![o] = "open"]
    /\ sseClients' = AddFeed(sseClients, o)
    /\ feed' = WriteTo(feed, o, InitialEvent(pubSeq))
    /\ lastSnap' = [lastSnap EXCEPT ![o] = FormatUsers(users, connectedUsers, proto)]
    /\ UNCHANGED <<users, disk, connectedUsers, sess, proto, unreachable,
                   pubSeq, lastPub, sent, helloed, firstHelloAt, lastCoords, warned, missed,
                   log>>

\* Faulty variant: the filter drops every response.
RemoveAllFeeds(cl, o) == SelectSeq(cl, LAMBDA c : FALSE)

\* sseClients.filter(c => c !== res)
RemoveFeed(cl, o) == SelectSeq(cl, LAMBDA c : c # o)

\* req.on("close") of GET /events; the closed response is gone, and with it
\* the record of what it received.
Unsubscribe(o) ==
    /\ obs[o] = "open"
    /\ obs' = [obs EXCEPT ![o] = "closed"]
    /\ sseClients' = RemoveFeed(sseClients, o)
    /\ feed' = [feed EXCEPT ![o] = NoFeed]
    /\ lastSnap' = [lastSnap EXCEPT ![o] = <<>>]
    /\ unreachable' = unreachable \ {o}
    /\ UNCHANGED <<users, disk, connectedUsers, sess, proto,
                   pubSeq, lastPub, sent, helloed, firstHelloAt, lastCoords, warned, missed,
                   log>>

\* The peer of a subscribed observer goes away (socket destroyed, network
\* gone); the "close" of its request has not been emitted yet, so the
\* response stays in sseClients. No handler of the server runs.
ObserverGone(o) ==
    /\ obs[o] = "open"
    /\ o \notin unreachable
    /\ Cardinality(unreachable) < MaxUnreachable
    /\ unreachable' = unreachable \cup {o}
    /\ UNCHANGED <<users, disk, connectedUsers, sseClients, sess, obs, proto,
                   sent, helloed, firstHelloAt, lastCoords, warned, log>>
    /\ NoBroadcast

Next ==
    \/ \E s \in Sessions : Connect(s)
    \/ \E s \in Sessions, m \in HelloMsgs, now \in Times : OnMessage(s, m, now)
    \/ \E s \in Sessions, m \in PositionMsgs : OnMessage(s, m, 0)
    \/ \E s \in Sessions, m \in OtherMsgs : OnMessage(s, m, 0)
    \/ \E s \in Sessions : OnClose(s)
    \/ \E o \in Observers : Subscribe(o)
    \/ \E o \in Observers : Unsubscribe(o)

Spec == Init /\ [][Next]_vars

\* The same program in an environment where the peer of an observer can go
\* away: the writes to its response are lost, and none of them throws.
NextFail == Next \/ \E o \in Observers : ObserverGone(o)

\* Started without a users.json: what a lost write does is the same for
\* every initial store.
InitFail == Init /\ disk.kind = "missing"

SpecFail == InitFail /\ [][NextFail]_vars

\* The same program when clients name steam ids with a meaning in
\* JavaScript; started with a users.json that does not parse, where the
\* registry is empty.
OddHellos ==
    { HelloMsg(KeyConstructor, Bob), HelloMsg(KeyProto, Bob),
      HelloMsg(KeyProto, Nameless), HelloMsg(KeyUsername, Bob),
      HelloMsg(KeyIndex, Bob) }
OddPositions ==
    { PositionMsg(KeyToLocaleString, CoordsA), PositionMsg(KeyProto, CoordsA) }

AllHellos == HelloMsgs \cup OddHellos
AllPositions == PositionMsgs \cup OddPositions

InitProto == Init /\ disk.kind = "corrupt"

NextProto ==
    \/ \E s \in Sessions : Connect(s)
    \/ \E s \in Sessions, m \in OddHellos, now \in Times : OnMessage(s, m, now)
    \/ \E s \in Sessions, m \in OddPositions : OnMessage(s, m, 0)
    \/ \E s \in Sessions : OnClose(s)
    \/ \E o \in Observers : Subscribe(o)

SpecProto == InitProto /\ [][NextProto]_vars

\* The same program when clients send messages with parts missing, and the
\* steam id that undefined is spelled as; started without a users.json.
ShortHellos == { <<"HELLO">>, <<"HELLO", Key1, Al.username>> }
ShortPositions == { <<"POSITION">>, <<"POSITION", Key1, Tok25>> }

InitShort == Init /\ disk.kind = "missing"

NextShort ==
    \/ \E s \in Sessions : Connect(s)
    \/ \E s \in Sessions, m \in ShortHellos \cup {HelloMsg(KeyUndefined, Bob)},
          now \in Times : OnMessage(s, m, now)
    \/ \E s \in Sessions, m \in ShortPositions : OnMessage(s, m, 0)
    \/ \E s \in Sessions : OnClose(s)
    \/ \E o \in Observers : Subscribe(o)

SpecShort == InitShort /\ [][NextShort]_vars

\* ---------------------------------------------------------- properties
Subscribed == { sseClients[i] : i \in 1..Len(sseClients) }
Current == FormatUsers(users, connectedUsers, proto)
Closes(s) == sess[s] = "open" /\ sess'[s] = "closed"
ShowsConnected(data, k) ==
    \E i \in 1..Len(data) : data[i].steamId = k /\ data[i].connected
NoneConnected(data) == \A i \in 1..Len(data) : ~data[i].connected
Identified(k) == \E s \in Sessions : sess[s] = "open" /\ k \in helloed[s]

\* C1: when two open sessions have both sent HELLO with the same key and
\* one of them closes, the key stays in the presence set and the snapshot
\* that close publishes shows it connected.
C1_SharedIdentityStaysConnected ==
    [][\A s \in Sessions, k \in Keys :
          (/\ Closes(s)
           /\ k \in helloed[s]
           /\ \E t \in Sessions \ {s} : sess[t] = "open" /\ k \in helloed[t])
          => (k \in connectedUsers' /\ ShowsConnected(lastPub'.data, k))]_vars

\* C2: a close removes only the closing session's own key, so every key
\* that some open session has sent HELLO with is in the presence set.
C2_OpenSessionsArePresent ==
    \A s \in Sessions, k \in Keys :
        (sess[s] = "open" /\ k \in helloed[s]) => k \in connectedUsers

\* C3: every key in the presence set has an open session that sent HELLO
\* with it; once every session that connected has closed, the presence set
\* is empty and the last published snapshot shows nobody connected.
C3_NoPresenceWithoutSession ==
    /\ \A k \in connectedUsers : Identified(k)
    /\ ((\A s \in Sessions : sess[s] # "open") /\ (\E s \in Sessions : sess[s] = "closed"))
          => (connectedUsers = {} /\ NoneConnected(lastPub.data))

\* Two sessions identified as two distinct identities and both have closed.
C3_Witness ==
    /\ \A s \in Sessions : sess[s] = "closed"
    /\ helloed[1] = {Key1}
    /\ helloed[2] = {Key2}
    /\ connectedUsers = {}
    /\ Len(lastPub.data) = 2

C4_FirstSeenIsFirstHello ==
    \A k \in AllKeys :
        HasUser(users, k) =>
            (/\ firstHelloAt[k] # <<>>
             /\ UserOf(users, k).firstConnected = firstHelloAt[k])

C4_FirstSeenKept ==
    \A k \in AllKeys :
        HasUser(users, k) =>
            (/\ HasUser(users', k)
             /\ UserOf(users', k).firstConnected = UserOf(users, k).firstConnected)

\* C4: a record's firstConnected is the instant of the first HELLO processed
\* for its key, and no later event changes it.
C4_FirstSeenFixed == []C4_FirstSeenIsFirstHello /\ [][C4_FirstSeenKept]_vars

\* C5: a POSITION naming a key without a record changes neither the
\* registry, the store nor the presence set, and writes to no observer.
C5_UnknownPositionIgnored ==
    [][\A s \in Sessions, m \in AllPositions :
          (~HasUser(users, m[2]) /\ OnMessage(s, m, 0))
          => UNCHANGED <<users, disk, connectedUsers, feed, lastSnap, pubSeq, lastPub>>]_vars

\* C6: a message other than HELLO on a session that has sent no HELLO is
\* rejected: registry, store and presence set stay as they are and nothing
\* is broadcast.
C6_UnidentifiedRejected ==
    [][\A s \in Sessions :
          helloed[s] = {} =>
            (/\ \A m \in PositionMsgs :
                   OnMessage(s, m, 0)
                   => UNCHANGED <<users, disk, connectedUsers, feed, lastSnap, pubSeq, lastPub>>
             /\ \A m \in OtherMsgs :
                   OnMessage(s, m, 0)
                   => UNCHANGED <<users, disk, connectedUsers, feed, lastSnap, pubSeq, lastPub>>)]_vars

C7_FirstIsInitial ==
    \A o \in Observers : obs[o] = "open" => feed[o].first = "initial"

C7_SubscribeStep ==
    \A o \in Observers :
        (obs[o] = "idle" /\ obs'[o] = "open") =>
            (/\ o \in { sseClients'[i] : i \in 1..Len(sseClients') }
             /\ feed'[o] = [first |-> "initial", last |-> InitialEvent(pubSeq), copies |-> 1]
             /\ lastSnap'[o] = Current)

\* C7: a subscribe writes exactly one snapshot, of the current state, to the
\* new observer, and that is the first event the observer gets: no published
\* snapshot reaches it earlier.
C7_SubscribeSnapshotFirst == []C7_FirstIsInitial /\ [][C7_SubscribeStep]_vars

\* An observer got its initial snapshot and, later, a published one.
C7_Witness ==
    \E o \in Observers :
        /\ obs[o] = "open"
        /\ feed[o].first = "initial"
        /\ feed[o].last.kind = "publish"

\* C8: between handlers, the last snapshot written to each subscribed
\* observer is the snapshot of the current registry and presence set.
C8_ObserversUpToDate ==
    \A o \in Subscribed : lastSnap[o] = Current

\* A subscribed observer has seen a HELLO and a POSITION published.
C8_Witness ==
    \E o \in Subscribed :
        /\ feed[o].last = PublishEvent(pubSeq)
        /\ pubSeq >= 2
        /\ \E i \in 1..Len(lastSnap[o]) :
              lastSnap[o][i].connected /\ lastSnap[o][i].lastPosition # NA

\* snapshot), so all observers see the publishes in trigger order.
C10_PublishOrder ==
    [][pubSeq' = pubSeq + 1 =>
          \A o \in Subscribed :
              /\ feed[o].last.seq = pubSeq
              /\ feed'[o].last = PublishEvent(pubSeq + 1)
              /\ feed'[o].copies = 1]_vars

\* Two observers have both received the second publish.
C10_Witness ==
    /\ Len(sseClients) = 2
    /\ pubSeq = 2
    /\ \A o \in Subscribed : feed[o].last = PublishEvent(2) /\ feed[o].first = "initial"

\* Position of a step in the most recent handler's log, 0 when it did not run.
StepAt(step) ==
    IF \E i \in 1..Len(log) : log[i] = step
    THEN CHOOSE i \in 1..Len(log) : log[i] = step ELSE 0

\* C11: in a HELLO handler the steps run in the order upsert, markConnected,
\* acknowledgment (WELCOME), and only then the broadcast publish.
C11_AckBeforePublish ==
    StepAt("ack") # 0 =>
        (/\ StepAt("upsert") # 0
         /\ StepAt("upsert") < StepAt("markConnected")
         /\ StepAt("markConnected") < StepAt("ack")
         /\ StepAt("ack") < StepAt("publish"))

\* C12: once a HELLO or an applied POSITION has been handled the store holds
\* the registry, and a WELCOME is sent only after the save, so the record it
\* carries is the one in the store.
C12_WriteBeforeAck ==
    /\ LoadUsers(disk) = users
    /\ (StepAt("upsert") # 0 \/ StepAt("updatePosition") # 0)
          => (StepAt("save") # 0 /\ disk = SaveUsers(users))
    /\ \A i \in 1..Len(sent) :
          /\ StepAt("save") # 0
          /\ StepAt("save") < StepAt("ack")
          /\ disk.kind = "json"
          /\ \E j \in 1..Len(disk.content) :
                 disk.content[j].value = sent[i].payload

\* C13: the lastPosition of every record is the formatted coordinates of the
\* last POSITION applied to it, from whichever session it came, and the
\* sentinel "N/A" when none was applied since the record was created.
C13_LastPositionWins ==
    \A k \in AllKeys :
        HasUser(users, k) =>
            UserOf(users, k).lastPosition =
                IF lastCoords[k] = <<>> THEN NA
                ELSE FormatPosition(ParseFloat(StringOf(lastCoords[k][1])),
                                    ParseFloat(StringOf(lastCoords[k][2])),
                                    ParseFloat(StringOf(lastCoords[k][3])))

\* The triple with the unreadable token was the last one applied to the
\* first record, after at least three publishes; a second record never got
\* a position.
C13_Witness ==
    /\ lastCoords[Key1] = CoordsB
    /\ pubSeq >= 3
    /\ HasUser(users, Key2)
    /\ UserOf(users, Key2).lastPosition = NA
    /\ UserOf(users, Key1).lastPosition =
          <<"N", "a", "N", ",", " ", "2", ".", "5", "0", ",", " ", "-", "0", ".", "0", "0">>

\* C14: a HELLO for a key that has a record writes the username, region,
\* timezone and lastConnected of that record and nothing else: its
\* firstConnected and lastPosition, and every other record, stay as they are.
C14_ReturningHelloFrame ==
    [][\A s \in Sessions, m \in AllHellos, now \in Times :
          (HasUser(users, m[2]) /\ OnMessage(s, m, now))
          => LET i == IndexOf(users, m[2])
             IN  /\ Len(users') = Len(users)
                 /\ \A j \in 1..Len(users) : j # i => users'[j] = users[j]
                 /\ users'[i] =
                       Entry(m[2],
                             [steamId |-> users[i].value.steamId,
                              username |-> m[3], region |-> m[4],
                              timezone |-> m[5],
                              firstConnected |-> users[i].value.firstConnected,
                              lastConnected |-> ToISOString(now),
                              lastPosition |-> users[i].value.lastPosition])]_vars

\* A record created at instant 0 that carries a position was just renamed by
\* a HELLO at instant 1, next to a second record.
C14_Witness ==
    /\ log = HelloSteps
    /\ Len(users) = 2
    /\ sent = <<Welcome(sent[1].to, UserOf(users, Key1))>>
    /\ UserOf(users, Key1).username = Al.username
    /\ UserOf(users, Key1).firstConnected = ToISOString(0)
    /\ UserOf(users, Key1).lastConnected = ToISOString(1)
    /\ UserOf(users, Key1).lastPosition # NA

\* The presence set, its members spelled as property names.
PresentKeys == { StringOf(c) : c \in connectedUsers }

\* The snapshot data has one entry for every property of the registry, in
\* property order, and an entry is connected exactly when the key of its
\* property is in the presence set.
OneEntryPerKey(data) ==
    /\ Len(data) = Cardinality(KeysOf(users))
    /\ \A i \in 1..Len(users) :
          /\ data[i].steamId \in {users[i].key, NA}
          /\ data[i].connected = (users[i].key \in PresentKeys)

\* C15: the snapshot last written to each subscribed observer, on subscribe
\* or on publish, and the snapshot of the last publish have one entry per
\* key of the registry with the connected flag equal to membership of that
\* key in the presence set, as registry and presence set are now.
C15_SnapshotPerKey ==
    /\ \A o \in Subscribed : OneEntryPerKey(lastSnap[o])
    /\ pubSeq > 0 => OneEntryPerKey(lastPub.data)

C16_StartsEmpty == disk.kind = "corrupt" => users = <<>>

C16_FirstHello ==
    \A s \in Sessions, m \in AllHellos, now \in Times :
        (warned /\ ~HasUser(users, m[2]) /\ OnMessage(s, m, now))
        => LET fresh == NewUser(m[2], m[3], m[4], m[5], ToISOString(now))
           IN  /\ Len(users') = Len(users) + 1
               /\ HasUser(users', m[2]) /\ UserOf(users', m[2]) = fresh
               /\ fresh.firstConnected = ToISOString(now)
               /\ fresh.lastConnected = ToISOString(now)
               /\ fresh.lastPosition = NA
               /\ sent' = <<Welcome(s, fresh)>>

\* C16: when users.json does not parse at startup the registry starts empty
\* and the server runs; a HELLO for a key without a record then creates a
\* record with firstConnected = lastConnected = the time of the HELLO and
\* lastPosition "N/A", and the WELCOME carries that record.
C16_CorruptStoreRecovers == []C16_StartsEmpty /\ [][C16_FirstHello]_vars

\* C17: a message whose command is neither HELLO nor POSITION leaves the
\* registry, the store, the presence set and the subscriber list as they
\* are, writes to no observer, sends no reply and leaves the session open.
C17_UnknownCommandIgnored ==
    [][\A s \in Sessions, m \in OtherMsgs :
          OnMessage(s, m, 0)
          => (/\ UNCHANGED <<users, disk, connectedUsers, sseClients, feed,
                             lastSnap, pubSeq, lastPub, sess>>
              /\ sent' = <<>>
              /\ sess'[s] = "open")]_vars

\* The test client's greeting was just handled while a user was connected
\* and an observer subscribed.
C17_Witness ==
    /\ log = <<"logUnknown">>
    /\ sent = <<>>
    /\ connectedUsers # {}
    /\ sseClients # <<>>
    /\ disk.kind = "json"

\* C18: a POSITION from a session that sent HELLO, naming a key with a
\* record that is not a key the session sent HELLO with, sets the
\* lastPosition of the named record and is published; the records of the
\* session's own keys stay as they are.
C18_ForeignPositionApplied ==
    [][\A s \in Sessions, m \in AllPositions :
          (/\ helloed[s] # {}
           /\ m[2] \notin helloed[s]
           /\ HasUser(users, m[2])
           /\ OnMessage(s, m, 0))
          => (/\ UserOf(users', m[2]).lastPosition =
                    FormatPosition(ParseFloat(m[3]), ParseFloat(m[4]), ParseFloat(m[5]))
              /\ \A k \in helloed[s] :
                    HasUser(users, k) => UserOf(users', k) = UserOf(users, k)
              /\ pubSeq' = pubSeq + 1
              /\ lastPub'.data = FormatUsers(users', connectedUsers', proto'))]_vars

\* The only session that ever connected sent HELLO as the second key alone,
\* and the last message handled was a POSITION applied to the first key.
C18_Witness ==
    /\ sess[2] = "idle"
    /\ helloed[1] = {Key2}
    /\ log = PositionSteps
    /\ lastCoords[Key1] = CoordsA
    /\ UserOf(users, Key1).lastPosition # NA
    /\ UserOf(users, Key2).lastPosition = NA

C19_ListIsOpenFeeds ==
    /\ \A o \in Observers :
          obs[o] = "open" =>
              Cardinality({ i \in 1..Len(sseClients) : sseClients[i] = o }) = 1
    /\ \A o \in Observers :
          obs[o] # "open" => (o \notin Subscribed /\ feed[o] = NoFeed)

C19_Step ==
    /\ \A o \in Observers :
          (obs[o] = "open" /\ obs'[o] = "closed") =>
              (/\ Len(sseClients') = Len(sseClients) - 1
               /\ { sseClients'[i] : i \in 1..Len(sseClients') } = Subscribed \ {o})
    /\ pubSeq' = pubSeq + 1 =>
          \A o \in Observers :
              IF obs[o] = "open"
              THEN feed'[o].last = PublishEvent(pubSeq + 1) /\ feed'[o].copies = 1
              ELSE feed'[o] = feed[o]

\* C19: the close of an observer's request removes exactly its response from
\* the list; a closed observer gets no later publish, and every other
\* subscribed observer gets every later publish exactly once.
C19_UnsubscribeExact == []C19_ListIsOpenFeeds /\ [][C19_Step]_vars

\* The second observer closed while the first stayed subscribed; a later
\* publish went to the first, once, and not to the second.
C19_Witness ==
    /\ obs[1] = "open"
    /\ obs[2] = "closed"
    /\ missed = {2}
    /\ sseClients = <<1>>
    /\ feed[1] = [first |-> "initial", last |-> PublishEvent(pubSeq), copies |-> 1]
    /\ feed[2] = NoFeed

\* C20: the presence set holds only keys that have a record in the registry,
\* so every connected identity has an entry in the snapshot.
C20_PresenceWithinRegistry ==
    /\ connectedUsers \subseteq KeysOf(users)
    /\ \A k \in connectedUsers :
          \E i \in 1..Len(Current) : Current[i].steamId = k

====
